---- MODULE Spec2Model ----
(***************************************************************************)
(* Model of PDF_DL_Website_App.py: scrape_pdf_links (a headless browser    *)
(* session that filters anchor hrefs), download_pdf (a bounded retry loop  *)
(* around a streaming GET) and main (scrape, then one download per link).  *)
(* Strings are sequences of one-character strings, so that lower(),        *)
(* substring search and split('/') are computed, not assumed.              *)
(***************************************************************************)
EXTENDS Integers, Sequences, FiniteSets, TLC

VARIABLES
    entry,      \* the function the run starts in: main, scrape_pdf_links, download_pdf
    pc,         \* the line the single thread is at
    fs,         \* the disk: path -> bytes, for the paths that exist
    fs0,        \* the disk when the run started (history)
    driver,     \* the browser instance: "none", "open", "quit"
    quits,      \* number of driver.quit() calls of the current scrape call
    anchors,    \* what driver.find_elements returned: the href of each <a>
    i,          \* position of the for loop of line 90
    pdf_links,  \* the list built by scrape_pdf_links and read by main
    pending,    \* an exception is in flight inside the try of scrape_pdf_links
    returning,  \* line 102 has evaluated its return value, finally still to run
    li,         \* position of the for loop of line 123
    invoked,    \* download_pdf invocations so far: <<[url, path]>> (history)
    returned,   \* number of download_pdf invocations that have returned (history)
    pdf_url,    \* download_pdf's arguments
    save_path,
    attempt,    \* the loop variable of line 38
    response,   \* the response of the last GET: [status, body]
    pos,        \* chunks of the body consumed by the loop of line 43
    handle,     \* the file object of line 42: "none", "open", "closed"
    gets,       \* requests.get calls of this invocation (history)
    sleeps,     \* time.sleep calls of this invocation (history)
    opens,      \* open() calls of this invocation (history)
    statuses,   \* status codes received by this invocation, in order (history)
    writes,     \* chunks passed to pdf_file.write by this invocation (history)
    raisedAt,   \* where this invocation raised: "none", "get", "open", "read", "write"
    last200,    \* path -> body of the last 200 response of a download to it (history)
    lastOpened  \* path -> [body, complete] of the last download that opened it (history)

vars == <<entry, pc, fs, fs0, driver, quits, anchors, i, pdf_links, pending,
          returning, li, invoked, returned, pdf_url, save_path, attempt,
          response, pos, handle, gets, sleeps, opens, statuses, writes,
          raisedAt, last200, lastOpened>>

scrapeVars == <<driver, quits, anchors, i, pdf_links, pending, returning>>
mainVars == <<li, invoked, returned>>
frameVars == <<pdf_url, save_path, attempt, response, pos, handle, gets, sleeps,
               opens, statuses, writes, raisedAt>>
diskVars == <<fs, last200, lastOpened>>

----------------------------------------------------------------------------
(* Bounds of the model.                                                     *)

\* longest anchor list a page of the scraper's own runs has
MaxAnchors == 3
\* longest anchor list a page of main's runs has
MaxMainAnchors == 2
\* most chunks iter_content yields for one response in download_pdf's own runs
MaxChunks == 3

----------------------------------------------------------------------------
(* Strings.                                                                 *)

\* str.lower() on the letters; every other character is left alone.
LowerOf ==
    ("A" :> "a") @@ ("B" :> "b") @@ ("C" :> "c") @@ ("D" :> "d") @@ ("E" :> "e") @@
    ("F" :> "f") @@ ("G" :> "g") @@ ("H" :> "h") @@ ("I" :> "i") @@ ("J" :> "j") @@
    ("K" :> "k") @@ ("L" :> "l") @@ ("M" :> "m") @@ ("N" :> "n") @@ ("O" :> "o") @@
    ("P" :> "p") @@ ("Q" :> "q") @@ ("R" :> "r") @@ ("S" :> "s") @@ ("T" :> "t") @@
    ("U" :> "u") @@ ("V" :> "v") @@ ("W" :> "w") @@ ("X" :> "x") @@ ("Y" :> "y") @@
    ("Z" :> "z")

lower(s) == [k \in 1..Len(s) |-> IF s[k] \in DOMAIN LowerOf THEN LowerOf[s[k]] ELSE s[k]]

\* Python's "t in s" for strings.
Contains(s, t) ==
    \E k \in 1..(Len(s) - Len(t) + 1) : SubSeq(s, k, k + Len(t) - 1) = t

\* s.split('/')[-1]: the text after the last '/', the whole of s when it has none.
RECURSIVE LastSegment(_)
LastSegment(s) ==
    IF s = <<>> THEN <<>>
    ELSE IF s[Len(s)] = "/" THEN <<>>
    ELSE LastSegment(SubSeq(s, 1, Len(s) - 1)) \o <<s[Len(s)]>>

\* s.split('/')[0]: the text before the first '/'.
RECURSIVE FirstSegment(_)
FirstSegment(s) ==
    IF s = <<>> THEN <<>>
    ELSE IF s[1] = "/" THEN <<>>
    ELSE <<s[1]>> \o FirstSegment(Tail(s))

\* The split indexed from the wrong end.
pdf_basename_first(url) == FirstSegment(url)

\* line 124: pdf_url.split('/')[-1]
pdf_basename(url) == LastSegment(url)

\* The two string literals of line 94.
PDF_EXT == <<".", "p", "d", "f">>
EXCLUDED == <<"c", "o", "n", "s", "u", "m", "e", "r", "e", "p", "o", "r", "t", "s",
              ".", "o", "r", "g">>

\* get_attribute('href') of an anchor that has no href.
None == <<"None">>

\* Python truthiness of an href: None and '' are falsy.
Truthy(h) == h # None /\ h # <<>>

\* The filter with the case folding applied to both tests.
is_pdf_link_folded(href) ==
    Contains(lower(href), PDF_EXT) /\ ~Contains(lower(href), EXCLUDED)

\* line 94
is_pdf_link(href) ==
    Contains(lower(href), PDF_EXT) /\ ~Contains(href, EXCLUDED)

\* line 122, one element per path component
save_dir == <<"C:", "\\", "Users", "\\", "Cruci", "\\", "source", "\\", "repos", "\\",
              "PDF_DL_Website_App">>

\* os.path.join(a, p) of the Windows path module, for a directory a that names
\* its drive and does not end in a separator: a rooted p keeps only a's drive,
\* a p with a drive of its own replaces a, anything else is appended after '\'.
os_path_join(a, p) ==
    IF p # <<>> /\ p[1] \in {"\\", "/"} THEN <<a[1]>> \o p
    ELSE IF Len(p) >= 2 /\ p[2] = ":" THEN p
    ELSE a \o <<"\\">> \o p

\* The concatenation of a sequence of chunks.
RECURSIVE Flatten(_)
Flatten(chunks) ==
    IF chunks = <<>> THEN <<>> ELSE Head(chunks) \o Flatten(Tail(chunks))

NonEmpty(chunk) == chunk # <<>>

----------------------------------------------------------------------------
(* The inputs of the runs.                                                  *)

\* download_pdf's retries parameter, at its default
retries == 3

\* Status codes the transport answers with.
Statuses == {200, 403, 404, 500}

\* The hrefs of the scraper's own runs: a host part, then x, then an ending.
Hosts == {<<"a", "/">>, EXCLUDED \o <<"/">>, <<"C">> \o Tail(EXCLUDED) \o <<"/">>}
Endings == {PDF_EXT, <<".", "P", "D", "F">>, <<".", "t", "x", "t">>, <<".", "p", "d">>}
ScrapeHrefs == {None, <<>>} \cup {h \o <<"x">> \o e : h \in Hosts, e \in Endings}

\* The hrefs of main's runs: two links with the same final segment, a link
\* with no '/', a link that ends in '/', a link whose final segment starts
\* with '\', and an anchor without href.
MainHrefs == {<<"a", "/", "x">> \o PDF_EXT, <<"b", "/", "x">> \o PDF_EXT,
              <<"y", ".", "P", "D", "F">>, <<"a", "/", "z">> \o PDF_EXT \o <<"/">>,
              <<"a", "/", "\\", "w">> \o PDF_EXT, None}

SeqsUpTo(S, n) == UNION {[1..k -> S] : k \in 0..n}

\* What find_elements can return in a run started at e.
Pages(e) ==
    IF e = "main" THEN SeqsUpTo(MainHrefs, MaxMainAnchors)
    ELSE SeqsUpTo(ScrapeHrefs, MaxAnchors)

\* A chunk iter_content yields: bytes, possibly none.
Chunks == {<<>>, <<1>>, <<2>>}

\* The bodies a 200 response can stream in a run started at e.
Bodies(e) ==
    IF e = "main" THEN {<< <<1>> >>, << <<2>>, <<>>, <<1>> >>}
    ELSE SeqsUpTo(Chunks, MaxChunks)

NoResponse == [status |-> 0, body |-> <<>>]
NoDisk == <<>>

\* The disk main can start on: empty, or with a file where x.pdf will be saved.
XPath == os_path_join(save_dir, <<"x">> \o PDF_EXT)
InitialDisks == {NoDisk, XPath :> <<7>>}

\* open(path, 'wb') of a path that names a directory cannot succeed.
NamesDirectory(path) == path[Len(path)] \in {"\\", "/"}

ScrapePcs == {"scrape_new", "scrape_get", "scrape_wait", "scrape_find", "scrape_for",
              "scrape_finally", "scrape_exit"}
DownloadPcs == {"dl_for", "dl_open", "dl_iter", "dl_sleep", "dl_except", "dl_return"}

----------------------------------------------------------------------------
(* Initial states.                                                          *)

InitCommon ==
    /\ fs0 = fs
    /\ driver = "none"
    /\ quits = 0
    /\ anchors = <<>>
    /\ i = 0
    /\ pdf_links = <<>>
    /\ pending = FALSE
    /\ returning = FALSE
    /\ li = 0
    /\ returned = 0
    /\ attempt = 0
    /\ response = NoResponse
    /\ pos = 0
    /\ handle = "none"
    /\ gets = 0
    /\ sleeps = 0
    /\ opens = 0
    /\ statuses = <<>>
    /\ writes = <<>>
    /\ raisedAt = "none"
    /\ last200 = <<>>
    /\ lastOpened = <<>>

\* The program is started: main is about to prompt.
Init ==
    /\ entry = "main"
    /\ pc = "main_input"
    /\ fs \in InitialDisks
    /\ invoked = <<>>
    /\ pdf_url = <<>>
    /\ save_path = <<>>
    /\ InitCommon

\* scrape_pdf_links is called on its own.
InitScrape ==
    /\ entry = "scrape_pdf_links"
    /\ pc = "scrape_new"
    /\ fs = NoDisk
    /\ invoked = <<>>
    /\ pdf_url = <<>>
    /\ save_path = <<>>
    /\ InitCommon

\* download_pdf(pdf_url, save_path) is called on its own, on some disk.
InitDownload ==
    /\ entry = "download_pdf"
    /\ pc = "dl_for"
    /\ fs \in InitialDisks
    /\ pdf_url = <<"a", "/", "x">> \o PDF_EXT
    /\ save_path \in {XPath, os_path_join(save_dir, <<>>)}
    /\ invoked = <<[url |-> pdf_url, path |-> save_path]>>
    /\ InitCommon

----------------------------------------------------------------------------
(* scrape_pdf_links, lines 62-104.                                          *)

\* How an exception that leaves scrape_pdf_links continues: in main at line
\* 118, in a run of the function alone at its caller.
ScrapeRaisesTo == IF entry = "main" THEN "main_exc" ELSE "propagated"
ScrapeReturnsTo == IF entry = "main" THEN "main_if" ELSE "done"

\* line 78: webdriver.Chrome(...) starts the browser, or raises before the try.
ScrapeNewDriver ==
    /\ pc = "scrape_new"
    /\ \/ /\ driver' = "open"
          /\ pc' = "scrape_get"
       \/ /\ driver' = driver
          /\ pc' = ScrapeRaisesTo
    /\ UNCHANGED <<entry, fs0, quits, anchors, i, pdf_links, pending, returning>>
    /\ UNCHANGED <<mainVars, frameVars, diskVars>>

\* line 81: driver.get(url_to_scrape); an unreachable URL raises.
ScrapeGet ==
    /\ pc = "scrape_get"
    /\ \/ /\ pending' = FALSE
          /\ pc' = "scrape_wait"
       \/ /\ pending' = TRUE
          /\ pc' = "scrape_finally"
    /\ UNCHANGED <<entry, fs0, driver, quits, anchors, i, pdf_links, returning>>
    /\ UNCHANGED <<mainVars, frameVars, diskVars>>

\* lines 84-86: WebDriverWait(driver, 10).until(...); a timeout raises.
ScrapeWait ==
    /\ pc = "scrape_wait"
    /\ \/ /\ pending' = FALSE
          /\ pc' = "scrape_find"
       \/ /\ pending' = TRUE
          /\ pc' = "scrape_finally"
    /\ UNCHANGED <<entry, fs0, driver, quits, anchors, i, pdf_links, returning>>
    /\ UNCHANGED <<mainVars, frameVars, diskVars>>

\* lines 89-90: pdf_links = [] and the anchors of the page, in document
\* order; find_elements can raise (the session died).
ScrapeFind ==
    /\ pc = "scrape_find"
    /\ pdf_links' = <<>>
    /\ \/ /\ anchors' \in Pages(entry)
          /\ i' = 1
          /\ pending' = FALSE
          /\ pc' = "scrape_for"
       \/ /\ pending' = TRUE
          /\ pc' = "scrape_finally"
          /\ UNCHANGED <<anchors, i>>
    /\ UNCHANGED <<entry, fs0, driver, quits, returning>>
    /\ UNCHANGED <<mainVars, frameVars, diskVars>>

\* lines 90-96: one anchor: read its href (which can raise), keep it when it
\* is truthy and passes the filter of line 94.
ScrapeAnchor ==
    /\ pc = "scrape_for"
    /\ i <= Len(anchors)
    /\ \/ /\ pdf_links' = IF Truthy(anchors[i]) /\ is_pdf_link(anchors[i])
                          THEN Append(pdf_links, anchors[i])
                          ELSE pdf_links
          /\ i' = i + 1
          /\ pc' = "scrape_for"
          /\ pending' = FALSE
       \/ /\ pending' = TRUE
          /\ pc' = "scrape_finally"
          /\ UNCHANGED <<pdf_links, i>>
    /\ UNCHANGED <<entry, fs0, driver, quits, anchors, returning>>
    /\ UNCHANGED <<mainVars, frameVars, diskVars>>

\* lines 98-102: the loop is over; the return value is pdf_links.
ScrapeReturn ==
    /\ pc = "scrape_for"
    /\ i > Len(anchors)
    /\ returning' = TRUE
    /\ pc' = "scrape_finally"
    /\ UNCHANGED <<entry, fs0, driver, quits, anchors, i, pdf_links, pending>>
    /\ UNCHANGED <<mainVars, frameVars, diskVars>>

\* A finally block that releases the browser on the normal path only.
ScrapeFinallyOnReturnOnly ==
    /\ pc = "scrape_finally"
    /\ driver' = IF returning THEN "quit" ELSE driver
    /\ quits' = IF returning THEN quits + 1 ELSE quits
    /\ pc' = "scrape_exit"
    /\ UNCHANGED <<entry, fs0, anchors, i, pdf_links, pending, returning>>
    /\ UNCHANGED <<mainVars, frameVars, diskVars>>

\* lines 103-104: finally: driver.quit(), on the return and on an exception.
ScrapeFinally ==
    /\ pc = "scrape_finally"
    /\ driver' = "quit"
    /\ quits' = quits + 1
    /\ pc' = "scrape_exit"
    /\ UNCHANGED <<entry, fs0, anchors, i, pdf_links, pending, returning>>
    /\ UNCHANGED <<mainVars, frameVars, diskVars>>

\* The end of the finally block: the exception in flight goes on to the
\* caller, or the function returns; its locals are gone either way.
ScrapeExit ==
    /\ pc = "scrape_exit"
    /\ pc' = IF pending THEN ScrapeRaisesTo ELSE ScrapeReturnsTo
    /\ pdf_links' = IF pending THEN <<>> ELSE pdf_links
    /\ anchors' = <<>>
    /\ i' = 0
    /\ UNCHANGED <<entry, fs0, driver, quits, pending, returning>>
    /\ UNCHANGED <<mainVars, frameVars, diskVars>>

----------------------------------------------------------------------------
(* main, lines 110-127.                                                     *)

\* lines 115-118: the prompt is answered and scrape_pdf_links is called.
MainInput ==
    /\ pc = "main_input"
    /\ pc' = "scrape_new"
    /\ UNCHANGED <<entry, fs0, scrapeVars, mainVars, frameVars, diskVars>>

\* A main that survives the scraper's exception and goes on with an empty list.
MainCatches ==
    /\ pc = "main_exc"
    /\ pc' = "main_if"
    /\ UNCHANGED <<entry, fs0, scrapeVars, mainVars, frameVars, diskVars>>

\* line 118 has no handler around it: the exception ends the program.
MainUncaught ==
    /\ pc = "main_exc"
    /\ pc' = "crashed"
    /\ UNCHANGED <<entry, fs0, scrapeVars, mainVars, frameVars, diskVars>>

\* lines 121, 126-127: the list's truth value decides between the loop and
\* the "no links" message.
MainIf ==
    /\ pc = "main_if"
    /\ IF pdf_links # <<>>
       THEN pc' = "main_for" /\ li' = 1
       ELSE pc' = "done" /\ li' = li
    /\ UNCHANGED <<entry, fs0, scrapeVars, invoked, returned, frameVars, diskVars>>

\* A loop that takes only every other link.
MainDownloadSkipping ==
    /\ pc = "main_for"
    /\ li <= Len(pdf_links)
    /\ pdf_url' = pdf_links[li]
    /\ save_path' = os_path_join(save_dir, pdf_basename(pdf_links[li]))
    /\ invoked' = Append(invoked, [url |-> pdf_url', path |-> save_path'])
    /\ li' = li + 2
    /\ attempt' = 0
    /\ response' = NoResponse
    /\ pos' = 0
    /\ handle' = "none"
    /\ gets' = 0
    /\ sleeps' = 0
    /\ opens' = 0
    /\ statuses' = <<>>
    /\ writes' = <<>>
    /\ raisedAt' = "none"
    /\ pc' = "dl_for"
    /\ UNCHANGED <<entry, fs0, scrapeVars, returned, diskVars>>

\* lines 123-125: the next link: its file name is the text after the last
\* '/', joined to save_dir; download_pdf is called with the default retries.
MainDownload ==
    /\ pc = "main_for"
    /\ li <= Len(pdf_links)
    /\ pdf_url' = pdf_links[li]
    /\ save_path' = os_path_join(save_dir, pdf_basename(pdf_links[li]))
    /\ invoked' = Append(invoked, [url |-> pdf_url', path |-> save_path'])
    /\ li' = li + 1
    /\ attempt' = 0
    /\ response' = NoResponse
    /\ pos' = 0
    /\ handle' = "none"
    /\ gets' = 0
    /\ sleeps' = 0
    /\ opens' = 0
    /\ statuses' = <<>>
    /\ writes' = <<>>
    /\ raisedAt' = "none"
    /\ pc' = "dl_for"
    /\ UNCHANGED <<entry, fs0, scrapeVars, returned, diskVars>>

\* line 123: the list is exhausted; main returns and the program ends.
MainDone ==
    /\ pc = "main_for"
    /\ li > Len(pdf_links)
    /\ pc' = "done"
    /\ UNCHANGED <<entry, fs0, scrapeVars, mainVars, frameVars, diskVars>>

----------------------------------------------------------------------------
(* download_pdf, lines 17-55.                                               *)

frameHistory == <<gets, sleeps, opens, statuses, writes, raisedAt>>

\* line 39: requests.get raises (no route, DNS, TLS, ...).
DlGetRaises ==
    /\ pc = "dl_for"
    /\ attempt < retries
    /\ gets' = gets + 1
    /\ raisedAt' = "get"
    /\ pc' = "dl_except"
    /\ UNCHANGED <<entry, fs0, scrapeVars, mainVars, diskVars>>
    /\ UNCHANGED <<pdf_url, save_path, attempt, response, pos, handle, sleeps, opens,
                   statuses, writes>>

\* lines 39, 41: the GET answers 200 with some body to stream.
DlGet200 ==
    /\ pc = "dl_for"
    /\ attempt < retries
    /\ \E body \in Bodies(entry) :
          /\ response' = [status |-> 200, body |-> body]
          /\ last200' = (save_path :> body) @@ last200
    /\ gets' = gets + 1
    /\ statuses' = Append(statuses, 200)
    /\ pc' = "dl_open"
    /\ UNCHANGED <<entry, fs0, scrapeVars, mainVars, fs, lastOpened>>
    /\ UNCHANGED <<pdf_url, save_path, attempt, pos, handle, sleeps, opens, writes,
                   raisedAt>>

\* lines 39, 48-49: the GET answers 403.
DlGet403 ==
    /\ pc = "dl_for"
    /\ attempt < retries
    /\ response' = [status |-> 403, body |-> <<>>]
    /\ gets' = gets + 1
    /\ statuses' = Append(statuses, 403)
    /\ pc' = "dl_sleep"
    /\ UNCHANGED <<entry, fs0, scrapeVars, mainVars, diskVars>>
    /\ UNCHANGED <<pdf_url, save_path, attempt, pos, handle, sleeps, opens, writes,
                   raisedAt>>

\* line 50, then line 38: time.sleep(2), and the loop goes to its next value.
DlSleep ==
    /\ pc = "dl_sleep"
    /\ sleeps' = sleeps + 1
    /\ attempt' = attempt + 1
    /\ pc' = "dl_for"
    /\ UNCHANGED <<entry, fs0, scrapeVars, mainVars, diskVars>>
    /\ UNCHANGED <<pdf_url, save_path, response, pos, handle, gets, opens, statuses,
                   writes, raisedAt>>

\* An else branch that retries like the 403 branch, without sleeping.
DlGetOtherRetries ==
    /\ pc = "dl_for"
    /\ attempt < retries
    /\ \E st \in Statuses \ {200, 403} :
          /\ response' = [status |-> st, body |-> <<>>]
          /\ statuses' = Append(statuses, st)
    /\ gets' = gets + 1
    /\ attempt' = attempt + 1
    /\ pc' = "dl_for"
    /\ UNCHANGED <<entry, fs0, scrapeVars, mainVars, diskVars>>
    /\ UNCHANGED <<pdf_url, save_path, pos, handle, sleeps, opens, writes, raisedAt>>

\* lines 39, 51-53: any other status: break, and the function falls off its end.
DlGetOther ==
    /\ pc = "dl_for"
    /\ attempt < retries
    /\ \E st \in Statuses \ {200, 403} :
          /\ response' = [status |-> st, body |-> <<>>]
          /\ statuses' = Append(statuses, st)
    /\ gets' = gets + 1
    /\ pc' = "dl_return"
    /\ UNCHANGED <<entry, fs0, scrapeVars, mainVars, diskVars>>
    /\ UNCHANGED <<pdf_url, save_path, attempt, pos, handle, sleeps, opens, writes,
                   raisedAt>>

\* line 38: range(retries) is exhausted; the function falls off its end.
DlExhausted ==
    /\ pc = "dl_for"
    /\ attempt >= retries
    /\ pc' = "dl_return"
    /\ UNCHANGED <<entry, fs0, scrapeVars, mainVars, frameVars, diskVars>>

\* line 42: open(save_path, 'wb') creates or truncates the file, or raises
\* (no such directory, a directory, no permission) and leaves the disk alone.
DlOpen ==
    /\ pc = "dl_open"
    /\ opens' = opens + 1
    /\ \/ /\ ~NamesDirectory(save_path)
          /\ fs' = (save_path :> <<>>) @@ fs
          /\ lastOpened' = (save_path :> [body |-> response.body, complete |-> FALSE])
                           @@ lastOpened
          /\ handle' = "open"
          /\ pos' = 0
          /\ pc' = "dl_iter"
          /\ UNCHANGED raisedAt
       \/ /\ raisedAt' = "open"
          /\ pc' = "dl_except"
          /\ UNCHANGED <<fs, lastOpened, handle, pos>>
    /\ UNCHANGED <<entry, fs0, scrapeVars, mainVars, last200>>
    /\ UNCHANGED <<pdf_url, save_path, attempt, response, gets, sleeps, statuses, writes>>

\* lines 43-45: the next chunk of the stream: written when it is not empty.
\* The write can raise (disk full); the with block then closes the file.
DlChunk ==
    /\ pc = "dl_iter"
    /\ pos < Len(response.body)
    /\ pos' = pos + 1
    /\ LET chunk == response.body[pos + 1] IN
       \/ /\ IF NonEmpty(chunk)
             THEN /\ fs' = [fs EXCEPT ![save_path] = @ \o chunk]
                  /\ writes' = Append(writes, chunk)
             ELSE UNCHANGED <<fs, writes>>
          /\ pc' = "dl_iter"
          /\ UNCHANGED <<handle, raisedAt>>
       \/ /\ NonEmpty(chunk)
          /\ raisedAt' = "write"
          /\ handle' = "closed"
          /\ pc' = "dl_except"
          /\ UNCHANGED <<fs, writes>>
    /\ UNCHANGED <<entry, fs0, scrapeVars, mainVars, last200, lastOpened>>
    /\ UNCHANGED <<pdf_url, save_path, attempt, response, gets, sleeps, opens, statuses>>

\* A stream error that leaves the file object open.
DlReadRaisesLeak ==
    /\ pc = "dl_iter"
    /\ raisedAt' = "read"
    /\ handle' = handle
    /\ pc' = "dl_except"
    /\ UNCHANGED <<entry, fs0, scrapeVars, mainVars, diskVars>>
    /\ UNCHANGED <<pdf_url, save_path, attempt, response, pos, gets, sleeps, opens,
                   statuses, writes>>

\* line 43: iter_content raises in mid-stream (connection reset, bad
\* encoding); the with block closes the file on the way out.
DlReadRaises ==
    /\ pc = "dl_iter"
    /\ raisedAt' = "read"
    /\ handle' = "closed"
    /\ pc' = "dl_except"
    /\ UNCHANGED <<entry, fs0, scrapeVars, mainVars, diskVars>>
    /\ UNCHANGED <<pdf_url, save_path, attempt, response, pos, gets, sleeps, opens,
                   statuses, writes>>

\* A success path that goes round the loop again instead of returning.
DlStreamEndContinues ==
    /\ pc = "dl_iter"
    /\ pos = Len(response.body)
    /\ handle' = "closed"
    /\ lastOpened' = [lastOpened EXCEPT ![save_path].complete = TRUE]
    /\ attempt' = attempt + 1
    /\ pc' = "dl_for"
    /\ UNCHANGED <<entry, fs0, scrapeVars, mainVars, fs, last200>>
    /\ UNCHANGED <<pdf_url, save_path, response, pos, gets, sleeps, opens, statuses,
                   writes, raisedAt>>

\* lines 43, 46-47: the stream is over: the with block closes the file, the
\* success is printed and the function returns.
DlStreamEnd ==
    /\ pc = "dl_iter"
    /\ pos = Len(response.body)
    /\ handle' = "closed"
    /\ lastOpened' = [lastOpened EXCEPT ![save_path].complete = TRUE]
    /\ pc' = "dl_return"
    /\ UNCHANGED <<entry, fs0, scrapeVars, mainVars, fs, last200>>
    /\ UNCHANGED <<pdf_url, save_path, attempt, response, pos, gets, sleeps, opens,
                   statuses, writes, raisedAt>>

\* A handler that logs and raises again.
DlExceptReraises ==
    /\ pc = "dl_except"
    /\ pc' = "crashed"
    /\ UNCHANGED <<entry, fs0, scrapeVars, mainVars, frameVars, diskVars>>

\* lines 54-55: except Exception: the error is printed, nothing is raised
\* again, and the function falls off its end.
DlExcept ==
    /\ pc = "dl_except"
    /\ pc' = "dl_return"
    /\ UNCHANGED <<entry, fs0, scrapeVars, mainVars, frameVars, diskVars>>

\* download_pdf returns None to its caller: main's loop, or the run's end.
DlReturn ==
    /\ pc = "dl_return"
    /\ returned' = returned + 1
    /\ pc' = IF entry = "main" THEN "main_for" ELSE "done"
    /\ UNCHANGED <<entry, fs0, scrapeVars, li, invoked, frameVars, diskVars>>

----------------------------------------------------------------------------
(* The specifications.                                                      *)

NextScrape ==
    \/ ScrapeNewDriver
    \/ ScrapeGet
    \/ ScrapeWait
    \/ ScrapeFind
    \/ ScrapeAnchor
    \/ ScrapeReturn
    \/ ScrapeFinally
    \/ ScrapeExit

NextDownload ==
    \/ DlGetRaises
    \/ DlGet200
    \/ DlGet403
    \/ DlGetOther
    \/ DlSleep
    \/ DlExhausted
    \/ DlOpen
    \/ DlChunk
    \/ DlReadRaises
    \/ DlStreamEnd
    \/ DlExcept
    \/ DlReturn

NextMain ==
    \/ MainInput
    \/ MainUncaught
    \/ MainIf
    \/ MainDownload
    \/ MainDone

Next == NextMain \/ NextScrape \/ NextDownload

\* The whole program, started at main.
Spec == Init /\ [][Next]_vars

\* scrape_pdf_links alone, the browser being the environment.
SpecScrape == InitScrape /\ [][NextScrape]_vars

\* download_pdf alone, the transport and the disk being the environment.
SpecDownload == InitDownload /\ [][NextDownload]_vars

----------------------------------------------------------------------------
(* The claims.                                                              *)

Range(s) == {s[k] : k \in 1..Len(s)}
IsPrefix(a, b) == Len(a) <= Len(b) /\ SubSeq(b, 1, Len(a)) = a
Forbidden(k) == [j \in 1..k |-> 403]

\* ".pdf" occurs in h in some mix of cases, stated letter by letter.
HasPdfAnyCase(h) ==
    \E k \in 1..(Len(h) - 3) :
        /\ h[k] = "."
        /\ h[k + 1] \in {"p", "P"}
        /\ h[k + 2] \in {"d", "D"}
        /\ h[k + 3] \in {"f", "F"}

\* The excluded domain occurs in h exactly as it is written.
HasExcludedRaw(h) ==
    \E k \in 0..(Len(h) - Len(EXCLUDED)) :
        \A j \in 1..Len(EXCLUDED) : h[k + j] = EXCLUDED[j]

Wanted(h) == HasPdfAnyCase(h) /\ ~HasExcludedRaw(h)

\* C1: when scrape_pdf_links returns, the list it returns is exactly the
\* subsequence of the hrefs it read whose lowercase form contains ".pdf" and
\* whose raw form does not contain "consumereports.org", in the order read.
C1_FilterIsExactSubsequence ==
    (pc \in {"scrape_finally", "scrape_exit"} /\ returning)
        => pdf_links = SelectSeq(anchors, Wanted)

\* C1's case: three anchors, the middle one dropped for the excluded domain,
\* a capitalised spelling of the domain kept, an upper-case .PDF kept.
C1_Witness ==
    /\ pc = "scrape_exit"
    /\ returning
    /\ Len(anchors) = 3
    /\ HasExcludedRaw(anchors[2])
    /\ HasPdfAnyCase(anchors[2])
    /\ anchors[1] # <<>>
    /\ anchors[1][1] = "C"
    /\ Contains(anchors[3], <<".", "P", "D", "F">>)
    /\ pdf_links = <<anchors[1], anchors[3]>>

C3_AllForbiddenSleepsTwice ==
    (pc = "done" /\ statuses = <<403, 403, 403>>) =>
        /\ gets = 3
        /\ sleeps = 2
        /\ opens = 0
        /\ fs = fs0
        /\ raisedAt = "none"

\* C4: a status other than 200 and 403 is the last thing the invocation
\* receives: no GET and no sleep follow it (the sleeps are those of the 403s
\* before it), no file is opened or written, and the function returns.
C4_OtherStatusStops ==
    \A j \in 1..Len(statuses) :
        statuses[j] \notin {200, 403} =>
            /\ j = Len(statuses)
            /\ gets = j
            /\ sleeps = j - 1
            /\ opens = 0
            /\ fs = fs0
            /\ raisedAt = "none"
            /\ pc \in {"dl_return", "done"}

\* C4's case: a 500 after one 403.
C4_Witness ==
    /\ pc = "done"
    /\ statuses = <<403, 500>>
    /\ gets = 2
    /\ sleeps = 1
    /\ fs = fs0

\* C5: once an attempt of download_pdf has raised, every further step is the
\* handler or the normal return: no GET, no sleep, no open and no write
\* follows, and the exception does not leave the function.
C5_ExceptionSwallowed ==
    [][raisedAt # "none" =>
          /\ pc' \in {"dl_return", "done"}
          /\ gets' = gets
          /\ sleeps' = sleeps
          /\ opens' = opens
          /\ fs' = fs]_vars

\* C5's case: a write raised after a retry and the function has returned.
C5_Witness ==
    /\ pc = "done"
    /\ raisedAt = "write"
    /\ statuses = <<403, 200>>
    /\ returned = 1

\* C6: a scrape call that started a browser has called driver.quit exactly
\* once when it exits, by return or by exception; one that never got a
\* browser calls it never; an exception in flight still reaches the caller.
C6_BrowserReleasedOnce ==
    /\ quits <= 1
    /\ pc \in {"scrape_exit", "done", "propagated"} =>
          /\ driver \in {"none", "quit"}
          /\ quits = IF driver = "none" THEN 0 ELSE 1
    /\ pending => pc \in {"scrape_finally", "scrape_exit", "propagated"}
    /\ (pc = "propagated" /\ driver # "none") => pending

\* C6's case: reading the second anchor raised; the browser was released and
\* the exception is about to leave the function.
C6_Witness ==
    /\ pc = "scrape_exit"
    /\ pending
    /\ i = 2
    /\ driver = "quit"
    /\ quits = 1

\* C7: the downloads are the links of the list, in order, one at a time: an
\* invocation starts only when all earlier ones have returned, at the end
\* every link has had exactly one, and an empty list has none.
C7_OneDownloadPerLinkInOrder ==
    /\ Len(invoked) = returned + (IF pc \in DownloadPcs THEN 1 ELSE 0)
    /\ Len(invoked) <= Len(pdf_links)
    /\ \A k \in 1..Len(invoked) : invoked[k].url = pdf_links[k]
    /\ pc = "done" => Len(invoked) = Len(pdf_links)

\* C7's case: two links; the first download wrote nothing, the second could
\* not open its file, and both were made.
C7_Witness ==
    /\ pc = "done"
    /\ Len(pdf_links) = 2
    /\ pdf_links[1] # pdf_links[2]
    /\ returned = 2
    /\ fs = fs0
    /\ raisedAt = "open"

\* C8: an exception of scrape_pdf_links ends the program at line 118 of main:
\* no download is started and the disk is untouched; an exception inside
\* download_pdf never ends the program.
C8_ScraperFailureIsFatal ==
    /\ pending => pc \in {"scrape_finally", "scrape_exit", "main_exc", "crashed"}
    /\ pc \in {"main_exc", "crashed"} =>
          /\ invoked = <<>>
          /\ gets = 0
          /\ opens = 0
          /\ fs = fs0
    /\ raisedAt # "none" => pc # "crashed"

\* C8's case: the wait for anchors timed out, the browser was released and
\* the program has ended on the exception.
C8_Witness ==
    /\ pc = "crashed"
    /\ pending
    /\ driver = "quit"
    /\ invoked = <<>>

\* seg is the text after the last '/' of url (all of url when it has none).
IsFinalSegment(url, seg) ==
    /\ "/" \notin Range(seg)
    /\ \E k \in 0..Len(url) :
          /\ SubSeq(url, k + 1, Len(url)) = seg
          /\ k = 0 \/ url[k] = "/"

\* Every download's path is save_dir joined with its link's final segment.
PathsAreFinalSegments ==
    \A k \in 1..Len(invoked) :
        \E seg \in {SubSeq(invoked[k].url, j + 1, Len(invoked[k].url)) :
                       j \in 0..Len(invoked[k].url)} :
            /\ IsFinalSegment(invoked[k].url, seg)
            /\ invoked[k].path = os_path_join(save_dir, seg)

\* The paths that two downloads of the run were given.
SharedPaths ==
    {invoked[j].path : j \in {j \in 1..Len(invoked) :
        \E k \in 1..Len(invoked) : k # j /\ invoked[k].path = invoked[j].path}}

\* C9 as stated: the paths are the final segments, and at the end of the run
\* a path shared by two links, for which some download got a 200, holds the
\* body of the last download to it that got a 200.
C9_FileHoldsLast200Body ==
    pc = "done" =>
        /\ PathsAreFinalSegments
        /\ \A p \in SharedPaths \cap DOMAIN last200 :
              p \in DOMAIN fs /\ fs[p] = Flatten(last200[p])

\* C9 amended: the paths are the final segments; at the end of the run a
\* path holds what the last download to open it wrote: its whole body when it
\* streamed to the end, the chunks before the failure otherwise; a path no
\* download opened is as it was when the run started.
C9_FileHoldsLastOpenedBody ==
    pc = "done" =>
        /\ PathsAreFinalSegments
        /\ DOMAIN fs = DOMAIN fs0 \cup DOMAIN lastOpened
        /\ \A p \in DOMAIN fs :
              IF p \in DOMAIN lastOpened
              THEN /\ IsPrefix(fs[p], Flatten(lastOpened[p].body))
                   /\ lastOpened[p].complete => fs[p] = Flatten(lastOpened[p].body)
              ELSE fs[p] = fs0[p]

\* C9's case: two different links with the same final segment; the second
\* download replaced what the first had written over the file of the start.
C9_Witness ==
    /\ pc = "done"
    /\ Len(invoked) = 2
    /\ invoked[1].url # invoked[2].url
    /\ SharedPaths = {invoked[2].path}
    /\ fs0 # NoDisk
    /\ invoked[2].path \in DOMAIN lastOpened
    /\ lastOpened[invoked[2].path].complete
    /\ response.body = << <<1>> >>
    /\ raisedAt = "none"
    /\ fs[invoked[2].path] = <<1>>

\* C10: the file is opened at most once per invocation and only after a 200;
\* the handle is open only inside the chunk loop, so it is closed when the
\* handler runs and when the function returns; after an exception in the
\* loop the file holds the chunks written before it.
C10_HandleScoped ==
    /\ opens <= 1
    /\ opens = 1 => (statuses # <<>> /\ statuses[Len(statuses)] = 200)
    /\ handle # "none" => opens = 1
    /\ handle = "open" => pc = "dl_iter"
    /\ (pc \in {"dl_except", "dl_return", "done"} /\ raisedAt \in {"read", "write"}) =>
          /\ handle = "closed"
          /\ fs[save_path] = Flatten(writes)
          /\ IsPrefix(writes, SelectSeq(response.body, NonEmpty))

\* C10's case: the stream broke after the first of two chunks; the file is
\* closed, holds that chunk only, and the function has returned.
C10_Witness ==
    /\ pc = "done"
    /\ raisedAt = "read"
    /\ handle = "closed"
    /\ response.body = << <<1>>, <<2>> >>
    /\ fs[save_path] = <<1>>

====
